---- MODULE Spec2Model ----
(***************************************************************************)
(* State machine of the OCRUpload component (src/src/components/           *)
(* OCRUpload.tsx): capture of an image, recognition, the question/answer   *)
(* history and the study-feature generation, driven by the events the      *)
(* rendered markup lets the user fire and by the completions of the        *)
(* asynchronous tasks it starts (FileReader, Tesseract.recognize,          *)
(* supabase.functions.invoke).                                             *)
(*                                                                         *)
(* Spec is the OCRUpload component with its two child components kept     *)
(* abstract: their callbacks (onCapture, onCancel, onProcess) may fire     *)
(* whenever the child is rendered and their own state is not tracked.      *)
(* SpecCamera and SpecAdjuster run the capture and recognition part of     *)
(* OCRUpload together with the state of CameraCapture.tsx and of           *)
(* ImagePreprocessor.tsx.                                                  *)
(* SpecExport runs it together with the text that is copied and saved,     *)
(* and SpecService is the edge function                                    *)
(* supabase/functions/ai-study-tools/index.ts, one request at a time.      *)
(*                                                                         *)
(* Every handler runs to its first await as one step; every continuation   *)
(* after an await (try / catch / finally) is one step.  React flushes the  *)
(* state updates of a handler before the next event is dispatched, so no   *)
(* event observes a half-applied handler.                                  *)
(***************************************************************************)
EXTENDS Integers, Sequences, FiniteSets, TLC

(* ---- bounds ---------------------------------------------------------- *)
MaxCaptures == 2      \* images captured (FileReader loads + camera photos)
MaxAsks == 2          \* questions accepted by handleAskQuestion
MaxStreams == 3       \* getUserMedia calls made by the camera component
MaxRotations == 5     \* handleRotate calls between two resets of the adjuster
MaxTextLen == 6       \* characters of a recognised text

(* ---- values ---------------------------------------------------------- *)
NULL == "null"
NoImage == 0                       \* image === null
PENDING == "..."                   \* sentinel answer of an in-flight turn
Features == {"lesson", "flashcards", "summarize", "quiz"}
EngineTexts == {"", "t1"}          \* result.data.text of a recognition run
EngineProgress == {404, 1000}      \* m.progress, in thousandths
LogStatuses == {"loading tesseract core", "recognizing text"}
FileTypes == {<<"image", "png">>, <<"text", "plain">>}
NoFile == <<>>                     \* e.dataTransfer.files[0] === undefined
NoStream == 0                      \* stream === null
\* a recognised text of n characters
TextOfLen(n) == [i \in 1..n |-> IF i % 2 = 1 THEN "a" ELSE "b"]
DocTexts == {TextOfLen(n) : n \in 1..MaxTextLen}
LineChars == 2                     \* characters that fit maxWidth
PageLines == 2                     \* lines that fit the height of a page
\* nothing was offered for saving yet
NoDownload == [type |-> "none", content |-> <<>>]
\* how a getUserMedia call settles: a stream, or the name of the DOMException
PermissionErrors == {"NotAllowedError"}
DeviceErrors == {"NotFoundError", "NotReadableError"}
MediaOutcomes == {"granted"} \cup PermissionErrors \cup DeviceErrors
DefaultRotation == 0
DefaultScale == 10                 \* useState(1), in tenths
SliderMin == 5                     \* min={0.5}
SliderMax == 20                    \* max={2}
SliderInputs == {3, 5, 17, 20, 23} \* positions the pointer asks for, in tenths
\* the edge function ai-study-tools: its requests and responses
Methods == {"OPTIONS", "POST"}
\* RequestBody.action, and a value outside the union
Actions == {"qa", "lesson", "flashcards", "summarize", "quiz"}
ActionInputs == Actions \cup {"translate"}
\* what req.json() yields; json is FALSE for a body that does not parse
Bodies ==
  [json : {TRUE}, text : {"", "t1"}, action : ActionInputs,
   question : {"", "q"}]
  \cup {[json |-> FALSE, text |-> "", action |-> "", question |-> ""]}
\* Deno.env.get('GEMINI_API_KEY'): unset, or a key
ApiKeys == {"", "k1"}
\* how the fetch of the provider settles: rejected (status 0), a non-success
\* status, or a success status with the text of the first candidate
Upstreams ==
  { [ok |-> FALSE, status |-> 0,   text |-> ""],
    [ok |-> FALSE, status |-> 429, text |-> ""],
    [ok |-> TRUE,  status |-> 200, text |-> ""],
    [ok |-> TRUE,  status |-> 200, text |-> "r1"] }

NoRequest ==
  [method |-> "none",
   body |-> [json |-> FALSE, text |-> "", action |-> "", question |-> ""],
   key |-> "", upstream |-> [ok |-> FALSE, status |-> 0, text |-> ""]]

\* the body of new Response(null, ...)
NoBody == [null |-> TRUE]

\* mutant: the responses carry no cross-origin headers
corsHeaders_None == [h \in {} |-> ""]

corsHeaders ==
  [h \in {"Access-Control-Allow-Origin", "Access-Control-Allow-Headers"} |->
     IF h = "Access-Control-Allow-Origin" THEN "*"
     ELSE "authorization, x-client-info, apikey, content-type"]

\* { ...corsHeaders, 'Content-Type': 'application/json' }
JsonHeaders == ("Content-Type" :> "application/json") @@ corsHeaders

NoResponse ==
  [status |-> 0, headers |-> [h \in {} |-> ""], body |-> NoBody,
   bodyRead |-> FALSE, fetched |-> FALSE, fetches |-> 0]

\* the `data` / `error` pair supabase.functions.invoke resolves to
Responses ==
  { [error |-> TRUE,  result |-> ""],
    [error |-> FALSE, result |-> ""],
    [error |-> FALSE, result |-> "r1"] }
\* contents of the question textarea: sequences of characters
Questions == { <<>>, <<" ">>, <<" ", "q", " ">> }

\* a <canvas> element nothing was drawn on: 300 x 150, no image
BlankCanvas ==
  [img |-> NoImage, rotation |-> 0, scale |-> 10, width |-> 300,
   height |-> 150]
\* img.width and img.height of the decoded capture `img`, in pixels
ImageWidth(img) == 2 * img + 1
ImageHeight(img) == 2 * img + 2

VARIABLES
  image,            \* useState<string|null>: NoImage or the id of a capture
  extractedText,    \* useState<string>
  isProcessing,     \* useState(false)
  progress,         \* useState(0)
  showPreprocessor, \* useState(false)
  showCamera,       \* useState(false)
  question,         \* useState("")
  qaHistory,        \* useState<QAPair[]>([])
  isAnswering,      \* useState(false)
  activeFeature,    \* useState<StudyFeature>(null)
  studyResult,      \* useState<string>("")
  isGenerating,     \* useState(false)
  reads,            \* FileReader.readAsDataURL calls whose onload is pending
  ocrRuns,          \* Tesseract.recognize calls not yet settled
  qaCalls,          \* callAIStudyTool(.., 'qa', ..) calls not yet settled
  genCalls,         \* callAIStudyTool(.., feature) calls not yet settled
  captures,         \* number of images captured so far (source of image ids)
  resets,           \* number of resetUpload calls so far
  now,              \* Date.now()
  ev,               \* the last event handled and the toast it showed
  \* CameraCapture.tsx
  camStream,        \* useState<MediaStream|null>: NoStream or a stream id
  hasPermission,    \* useState<boolean|null>: "null", "true" or "false"
  facingMode,       \* useState<"user"|"environment">
  effectStream,     \* `stream` as captured by the cleanup of the last effect
  camRequests,      \* getUserMedia calls not yet settled
  openStreams,      \* granted streams whose tracks were not stopped
  streamSeq,        \* number of getUserMedia calls so far (stream ids)
  \* ImagePreprocessor.tsx
  rotation,         \* useState(0)
  scale,            \* useState(1), in tenths
  rotations,        \* handleRotate calls since the mount or last handleReset
  imgRef,           \* useRef<HTMLImageElement|null>: NoImage or the loaded image
  canvas,           \* what the <canvas> holds: its size and the last drawing
  imgLoads,         \* new Image() loads whose onload is pending
  processed,        \* the canvas content last handed to onProcess
  \* copy and export of the extracted text
  chars,            \* the characters of extractedText
  copied,           \* useState(false)
  clipboard,        \* what navigator.clipboard holds
  download,         \* the last file offered to the host for saving
  \* supabase/functions/ai-study-tools/index.ts
  request,          \* the request the edge function served last
  response          \* the Response it returned

vars == <<image, extractedText, isProcessing, progress, showPreprocessor,
          showCamera, question, qaHistory, isAnswering, activeFeature,
          studyResult, isGenerating, reads, ocrRuns, qaCalls,
          genCalls, captures, resets, now, ev,
          camStream, hasPermission, facingMode, effectStream, camRequests,
          openStreams, streamSeq, rotation, scale, rotations,
          imgRef, canvas, imgLoads, processed,
          chars, copied, clipboard, download, request, response>>

captureVars == <<image, showPreprocessor, showCamera, reads, captures>>
ocrVars == <<isProcessing, progress, ocrRuns>>
qaVars == <<question, qaHistory, isAnswering, qaCalls, now>>
studyVars == <<activeFeature, studyResult, isGenerating, genCalls>>
\* the state of OCRUpload, all but the history record
sessionVars == <<captureVars, extractedText, resets, ocrVars, qaVars,
                 studyVars>>
camVars == <<camStream, hasPermission, facingMode, effectStream, camRequests,
             openStreams, streamSeq>>
adjVars == <<rotation, scale, rotations, imgRef, canvas, imgLoads,
             processed>>
childVars == <<camVars, adjVars>>
exportVars == <<chars, copied, clipboard, download>>
svcVars == <<request, response>>
\* what lies outside OCRUpload, CameraCapture and ImagePreprocessor
extVars == <<exportVars, svcVars>>
\* what OCRUpload's handlers of capture, recognition, QA and study leave alone
outerVars == <<childVars, extVars>>

(* ---- pure helpers ---------------------------------------------------- *)
IsSpace(c) == c = " "

RECURSIVE TrimStart(_)
TrimStart(s) ==
  IF s = <<>> THEN <<>>
  ELSE IF IsSpace(Head(s)) THEN TrimStart(Tail(s)) ELSE s

RECURSIVE TrimEnd(_)
TrimEnd(s) ==
  IF s = <<>> THEN <<>>
  ELSE IF IsSpace(s[Len(s)]) THEN TrimEnd(SubSeq(s, 1, Len(s) - 1)) ELSE s

\* mutant: the guard tests the raw question (`!question`), nothing trimmed
Trim_Raw(s) == s

\* String.prototype.trim
Trim(s) == TrimEnd(TrimStart(s))

\* Math.round(m.progress * 100), m.progress given in thousandths
RoundPercent(m) == (m + 5) \div 10

\* mutant: the media type of the file is not tested
IsImageType_Always(type) == TRUE

\* file.type.startsWith("image/")
IsImageType(type) == type[1] = "image"

\* mutant: the first turn is taken, whatever its timestamp
FindIndex_First(h, ts) == IF h = <<>> THEN 0 ELSE 1

\* Array.prototype.findIndex on the timestamp; 0 stands for -1
FindIndex(h, ts) ==
  IF \E i \in DOMAIN h : h[i].timestamp = ts
  THEN CHOOSE i \in DOMAIN h :
         /\ h[i].timestamp = ts
         /\ \A j \in DOMAIN h : h[j].timestamp = ts => i <= j
  ELSE 0

\* mutant: the filter keeps the turn instead of dropping it (=== for !==)
FilterOut_Inverted(h, ts) == SelectSeq(h, LAMBDA q : q.timestamp = ts)

\* Array.prototype.filter(q => q.timestamp !== ts)
RECURSIVE FilterOut(_, _)
FilterOut(h, ts) ==
  IF h = <<>> THEN <<>>
  ELSE IF Head(h).timestamp # ts
       THEN <<Head(h)>> \o FilterOut(Tail(h), ts)
       ELSE FilterOut(Tail(h), ts)

\* outcome of callAIStudyTool for a response of the service
callAIStudyTool(resp) ==
  IF resp.error \/ resp.result = ""
  THEN [ok |-> FALSE, value |-> "", message |-> "Failed to process with AI"]
  ELSE [ok |-> TRUE, value |-> resp.result, message |-> ""]

(* ---- what the markup renders ----------------------------------------- *)
CaptureView ==
  IF showCamera THEN "camera"
  ELSE IF showPreprocessor /\ image # NoImage THEN "preprocessor"
  ELSE IF image = NoImage THEN "upload"
  ELSE "none"

ResultsView ==
  IF isProcessing THEN "processing"
  ELSE IF extractedText # "" THEN "text"
  ELSE "placeholder"

\* mutant: the textarea stays enabled while a question is being answered
TextareaDisabled_Never == FALSE

TextareaDisabled == isAnswering

SendDisabled == isAnswering \/ Trim(question) = <<>>
\* mutant: the study-feature buttons stay enabled while generating
StudyButtonDisabled_Never == FALSE

StudyButtonDisabled == isGenerating

(* ---- history record -------------------------------------------------- *)
\* toast: title of the toast the event showed ("" when none);
\* result: what the event was given or produced (the media type of a file,
\* the outcome of a request, the content a request replaced);
\* sinceCapture / sinceReset: for the completion of an asynchronous task,
\* whether an image was captured / resetUpload ran since the task started
Event(op, toast) ==
  [op |-> op, toast |-> toast, feature |-> NULL, result |-> "", value |-> 0,
   sinceCapture |-> FALSE, sinceReset |-> FALSE]

Init ==
  /\ image = NoImage
  /\ extractedText = ""
  /\ isProcessing = FALSE
  /\ progress = 0
  /\ showPreprocessor = FALSE
  /\ showCamera = FALSE
  /\ question = <<>>
  /\ qaHistory = <<>>
  /\ isAnswering = FALSE
  /\ activeFeature = NULL
  /\ studyResult = ""
  /\ isGenerating = FALSE
  /\ reads = 0
  /\ ocrRuns = {}
  /\ qaCalls = {}
  /\ genCalls = {}
  /\ captures = 0
  /\ resets = 0
  /\ now = 1
  /\ ev = Event("mount", "")
  /\ camStream = NoStream
  /\ hasPermission = "null"
  /\ facingMode = "environment"
  /\ effectStream = NoStream
  /\ camRequests = {}
  /\ openStreams = {}
  /\ streamSeq = 0
  /\ rotation = DefaultRotation
  /\ scale = DefaultScale
  /\ rotations = 0
  /\ imgRef = NoImage
  /\ canvas = BlankCanvas
  /\ imgLoads = {}
  /\ processed = BlankCanvas
  /\ chars = <<>>
  /\ copied = FALSE
  /\ clipboard = <<>>
  /\ download = NoDownload
  /\ request = NoRequest
  /\ response = NoResponse

(* ---- capture: file input, drag-drop, camera -------------------------- *)
\* handleImageUpload(file), called by the event `op`: reject a non-image,
\* else start a FileReader
handleImageUpload(type, op) ==
  IF ~IsImageType(type)
  THEN /\ ev' = [Event(op, "Invalid file type") EXCEPT !.result = type[1]]
       /\ UNCHANGED reads
  ELSE /\ captures + reads < MaxCaptures
       /\ reads' = reads + 1
       /\ ev' = [Event(op, "") EXCEPT !.result = type[1]]

\* <input id="file-upload" onChange={handleFileInput}>, rendered with the
\* upload controls only
handleFileInput(type) ==
  /\ CaptureView = "upload"
  /\ handleImageUpload(type, "handleFileInput")
  /\ UNCHANGED <<image, extractedText, showPreprocessor, showCamera, captures,
                 resets, ocrVars, qaVars, studyVars>>

\* onDrop of the capture area, which wraps every capture view
handleDrop(file) ==
  /\ IF file = NoFile
     THEN /\ ev' = Event("handleDrop", "")
          /\ UNCHANGED reads
     ELSE handleImageUpload(file, "handleDrop")
  /\ UNCHANGED <<image, extractedText, showPreprocessor, showCamera, captures,
                 resets, ocrVars, qaVars, studyVars>>

\* reader.onload of handleImageUpload
readerOnload ==
  /\ reads > 0
  /\ reads' = reads - 1
  /\ captures' = captures + 1
  /\ image' = captures + 1
  /\ extractedText' = ""
  /\ showPreprocessor' = TRUE
  /\ ev' = Event("readerOnload", "")
  /\ UNCHANGED <<showCamera, resets, ocrVars, qaVars, studyVars>>

\* "Take Photo" button, rendered with the upload controls only
openCamera ==
  /\ CaptureView = "upload"
  /\ showCamera' = TRUE
  /\ ev' = Event("openCamera", "")
  /\ UNCHANGED <<image, extractedText, showPreprocessor, reads, captures,
                 resets, ocrVars, qaVars, studyVars>>

\* onCapture of <CameraCapture>
handleCameraCapture ==
  /\ CaptureView = "camera"
  /\ captures + reads < MaxCaptures
  /\ captures' = captures + 1
  /\ image' = captures + 1
  /\ extractedText' = ""
  /\ showCamera' = FALSE
  /\ showPreprocessor' = TRUE
  /\ ev' = Event("handleCameraCapture", "Photo captured!")
  /\ UNCHANGED <<reads, resets, ocrVars, qaVars, studyVars>>

\* onCancel of <CameraCapture>
handleCameraCancel ==
  /\ CaptureView = "camera"
  /\ showCamera' = FALSE
  /\ ev' = Event("handleCameraCancel", "")
  /\ UNCHANGED <<image, extractedText, showPreprocessor, reads, captures,
                 resets, ocrVars, qaVars, studyVars>>

\* onCancel of <ImagePreprocessor>
handlePreprocessorCancel ==
  /\ CaptureView = "preprocessor"
  /\ showPreprocessor' = FALSE
  /\ image' = NoImage
  /\ ev' = Event("handlePreprocessorCancel", "")
  /\ UNCHANGED <<extractedText, showCamera, reads, captures, resets,
                 ocrVars, qaVars, studyVars>>

(* ---- recognition ------------------------------------------------------ *)
\* a recognition run: the capture it was started for and the last progress
\* the engine reported for it
Run(img) == [img |-> img, p |-> 0]

\* a newer image was captured after run r started
CapturedSince(r) == captures > r.img

\* onProcess of <ImagePreprocessor>: processOCR up to its await
processOCR ==
  /\ CaptureView = "preprocessor"
  /\ isProcessing' = TRUE
  /\ progress' = 0
  /\ showPreprocessor' = FALSE
  /\ ocrRuns' = ocrRuns \cup {Run(image)}
  /\ ev' = Event("processOCR", "")
  /\ UNCHANGED <<image, extractedText, showCamera, reads, captures, resets,
                 qaVars, studyVars>>

\* the logger callback of Tesseract.recognize; the engine reports
\* non-decreasing progress for the recognition of one run
logger(r, status, m) ==
  /\ r \in ocrRuns
  /\ IF status = "recognizing text"
     THEN /\ m >= r.p
          /\ progress' = RoundPercent(m)
          /\ ocrRuns' = (ocrRuns \ {r}) \cup {[r EXCEPT !.p = m]}
     ELSE UNCHANGED <<progress, ocrRuns>>
  /\ ev' = Event("logger", "")
  /\ UNCHANGED <<isProcessing, captureVars, extractedText, resets, qaVars,
                 studyVars>>

\* processOCR after the await resolved: rest of try, then finally
processOCRResolved(r, text) ==
  /\ r \in ocrRuns
  /\ ocrRuns' = ocrRuns \ {r}
  /\ extractedText' = text
  /\ image' = NoImage
  /\ isProcessing' = FALSE
  /\ progress' = 0
  /\ ev' = [Event("processOCRResolved", "Text extracted successfully!")
              EXCEPT !.sinceCapture = CapturedSince(r)]
  /\ UNCHANGED <<showPreprocessor, showCamera, reads, captures, resets,
                 qaVars, studyVars>>

\* mutant: the flags are cleared at the end of try, not in finally
processOCRRejected_NoFinally(r) ==
  /\ r \in ocrRuns
  /\ ocrRuns' = ocrRuns \ {r}
  /\ ev' = [Event("processOCRRejected", "Extraction failed")
              EXCEPT !.sinceCapture = CapturedSince(r)]
  /\ UNCHANGED <<captureVars, extractedText, resets, qaVars, studyVars,
                 isProcessing, progress>>

\* mutant: finally clears the flag but leaves the percentage
processOCRRejected_KeepProgress(r) ==
  /\ r \in ocrRuns
  /\ ocrRuns' = ocrRuns \ {r}
  /\ isProcessing' = FALSE
  /\ ev' = [Event("processOCRRejected", "Extraction failed")
              EXCEPT !.sinceCapture = CapturedSince(r)]
  /\ UNCHANGED <<captureVars, extractedText, resets, qaVars, studyVars,
                 progress>>

\* processOCR after the await rejected: catch, then finally
processOCRRejected(r) ==
  /\ r \in ocrRuns
  /\ ocrRuns' = ocrRuns \ {r}
  /\ isProcessing' = FALSE
  /\ progress' = 0
  /\ ev' = [Event("processOCRRejected", "Extraction failed")
              EXCEPT !.sinceCapture = CapturedSince(r)]
  /\ UNCHANGED <<captureVars, extractedText, resets, qaVars, studyVars>>

\* "Extract Another Image" button, rendered with the extracted text
resetUpload ==
  /\ ResultsView = "text"
  /\ image' = NoImage
  /\ extractedText' = ""
  /\ showPreprocessor' = FALSE
  /\ showCamera' = FALSE
  /\ question' = <<>>
  /\ qaHistory' = <<>>
  /\ activeFeature' = NULL
  /\ studyResult' = ""
  /\ resets' = resets + 1
  /\ ev' = Event("resetUpload", "")
  /\ UNCHANGED <<reads, captures, ocrVars, isAnswering, qaCalls, now,
                 isGenerating, genCalls>>

(* ---- question / answer ----------------------------------------------- *)
\* onChange of the question textarea
setQuestion(q) ==
  /\ ResultsView = "text"
  /\ ~TextareaDisabled
  /\ question' = q
  /\ ev' = Event("setQuestion", "")
  /\ UNCHANGED <<captureVars, extractedText, resets, ocrVars, qaHistory,
                 isAnswering, qaCalls, now, studyVars>>

\* an in-flight QA request: the arguments of callAIStudyTool, the timestamp
\* of its turn, and what the session looked like when it was sent
QACall ==
  [timestamp |-> now, text |-> extractedText, question |-> Trim(question),
   before |-> qaHistory, captures |-> captures, resets |-> resets]

\* handleAskQuestion up to its await
handleAskQuestion ==
  IF Trim(question) = <<>> \/ extractedText = ""
  THEN /\ ev' = Event("askRefused", "Cannot ask question")
       /\ UNCHANGED qaVars
  ELSE /\ now <= MaxAsks
       /\ isAnswering' = TRUE
       /\ qaHistory' = Append(qaHistory,
                              [question |-> Trim(question), answer |-> PENDING,
                               timestamp |-> now])
       /\ question' = <<>>
       /\ qaCalls' = qaCalls \cup {QACall}
       /\ now' = now + 1
       /\ ev' = Event("askSent", "")

\* click on the Send button
clickSend ==
  /\ ResultsView = "text"
  /\ IF SendDisabled
     THEN /\ ev' = Event("sendDisabled", "")
          /\ UNCHANGED qaVars
     ELSE handleAskQuestion
  /\ UNCHANGED <<captureVars, extractedText, resets, ocrVars, studyVars>>

\* Enter (without Shift) in the question textarea
keyEnter ==
  /\ ResultsView = "text"
  /\ IF TextareaDisabled
     THEN /\ ev' = Event("textareaDisabled", "")
          /\ UNCHANGED qaVars
     ELSE handleAskQuestion
  /\ UNCHANGED <<captureVars, extractedText, resets, ocrVars, studyVars>>

\* handleAskQuestion after its await: rest of try or catch, then finally
handleAskQuestionSettled(c, resp) ==
  /\ c \in qaCalls
  /\ qaCalls' = qaCalls \ {c}
  /\ LET out == callAIStudyTool(resp)
         i == FindIndex(qaHistory, c.timestamp)
     IN IF out.ok
        THEN /\ qaHistory' =
                  [j \in DOMAIN qaHistory |->
                     IF j = i THEN [qaHistory[j] EXCEPT !.answer = out.value]
                     ELSE qaHistory[j]]
             /\ ev' = [Event("qaSuccess", "Answer generated!") EXCEPT
                         !.result = out.value,
                         !.sinceCapture = captures > c.captures,
                         !.sinceReset = resets > c.resets]
        ELSE /\ qaHistory' = FilterOut(qaHistory, c.timestamp)
             /\ ev' = [Event("qaFailure", "Failed to answer question") EXCEPT
                         !.result = out.message,
                         !.sinceCapture = captures > c.captures,
                         !.sinceReset = resets > c.resets]
  /\ isAnswering' = FALSE
  /\ UNCHANGED <<captureVars, extractedText, resets, ocrVars, question, now,
                 studyVars>>

(* ---- study features --------------------------------------------------- *)
\* an in-flight generation request
GenCall(feature) ==
  [feature |-> feature, text |-> extractedText,
   captures |-> captures, resets |-> resets]

\* mutant: the request is sent without testing extractedText first
handleStudyFeature_NoGuard(feature) ==
  /\ isGenerating' = TRUE
  /\ activeFeature' = feature
  /\ studyResult' = ""
  /\ genCalls' = genCalls \cup {GenCall(feature)}
  /\ ev' = [Event("generateSent", "") EXCEPT
              !.feature = feature, !.result = studyResult]

\* mutant: the request is sent without setActiveFeature(feature)
handleStudyFeature_NoActiveFeature(feature) ==
  IF extractedText = ""
  THEN /\ ev' = [Event("generateRefused", "No text available")
                   EXCEPT !.feature = feature]
       /\ UNCHANGED studyVars
  ELSE /\ isGenerating' = TRUE
       /\ studyResult' = ""
       /\ genCalls' = genCalls \cup {GenCall(feature)}
       /\ ev' = [Event("generateSent", "") EXCEPT
                   !.feature = feature, !.result = studyResult]
       /\ UNCHANGED activeFeature

\* mutant: the request is sent without setStudyResult("")
handleStudyFeature_KeepResult(feature) ==
  IF extractedText = ""
  THEN /\ ev' = [Event("generateRefused", "No text available")
                   EXCEPT !.feature = feature]
       /\ UNCHANGED studyVars
  ELSE /\ isGenerating' = TRUE
       /\ activeFeature' = feature
       /\ genCalls' = genCalls \cup {GenCall(feature)}
       /\ ev' = [Event("generateSent", "") EXCEPT
                   !.feature = feature, !.result = studyResult]
       /\ UNCHANGED studyResult

\* handleStudyFeature up to its await; the event records the content the
\* request replaced
handleStudyFeature(feature) ==
  IF extractedText = ""
  THEN /\ ev' = [Event("generateRefused", "No text available")
                   EXCEPT !.feature = feature]
       /\ UNCHANGED studyVars
  ELSE /\ isGenerating' = TRUE
       /\ activeFeature' = feature
       /\ studyResult' = ""
       /\ genCalls' = genCalls \cup {GenCall(feature)}
       /\ ev' = [Event("generateSent", "") EXCEPT
                   !.feature = feature, !.result = studyResult]

\* click on one of the four study-feature buttons
clickStudyFeature(feature) ==
  /\ ResultsView = "text"
  /\ IF StudyButtonDisabled
     THEN /\ ev' = [Event("studyButtonDisabled", "") EXCEPT !.feature = feature]
          /\ UNCHANGED studyVars
     ELSE handleStudyFeature(feature)
  /\ UNCHANGED <<captureVars, extractedText, resets, ocrVars, qaVars>>

\* mutant: the catch block does not call setActiveFeature(null)
handleStudyFeatureSettled_KeepFeature(c, resp) ==
  /\ c \in genCalls
  /\ genCalls' = genCalls \ {c}
  /\ LET out == callAIStudyTool(resp)
     IN IF out.ok
        THEN /\ studyResult' = out.value
             /\ ev' = [Event("genSuccess", "Generated successfully!") EXCEPT
                         !.feature = c.feature, !.result = out.value,
                         !.sinceCapture = captures > c.captures,
                         !.sinceReset = resets > c.resets]
             /\ UNCHANGED activeFeature
        ELSE /\ ev' = [Event("genFailure", "Generation failed") EXCEPT
                         !.feature = c.feature, !.result = out.message,
                         !.sinceCapture = captures > c.captures,
                         !.sinceReset = resets > c.resets]
             /\ UNCHANGED <<activeFeature, studyResult>>
  /\ isGenerating' = FALSE
  /\ UNCHANGED <<captureVars, extractedText, resets, ocrVars, qaVars>>

\* handleStudyFeature after its await: rest of try or catch, then finally
handleStudyFeatureSettled(c, resp) ==
  /\ c \in genCalls
  /\ genCalls' = genCalls \ {c}
  /\ LET out == callAIStudyTool(resp)
     IN IF out.ok
        THEN /\ studyResult' = out.value
             /\ ev' = [Event("genSuccess", "Generated successfully!") EXCEPT
                         !.feature = c.feature, !.result = out.value,
                         !.sinceCapture = captures > c.captures,
                         !.sinceReset = resets > c.resets]
             /\ UNCHANGED activeFeature
        ELSE /\ activeFeature' = NULL
             /\ ev' = [Event("genFailure", "Generation failed") EXCEPT
                         !.feature = c.feature, !.result = out.message,
                         !.sinceCapture = captures > c.captures,
                         !.sinceReset = resets > c.resets]
             /\ UNCHANGED studyResult
  /\ isGenerating' = FALSE
  /\ UNCHANGED <<captureVars, extractedText, resets, ocrVars, qaVars>>

\* "Close" button of the study result, rendered while not generating
closeStudyResult ==
  /\ ResultsView = "text"
  /\ activeFeature # NULL
  /\ ~isGenerating
  /\ activeFeature' = NULL
  /\ studyResult' = ""
  /\ ev' = Event("closeStudyResult", "")
  /\ UNCHANGED <<captureVars, extractedText, resets, ocrVars, qaVars,
                 isGenerating, genCalls>>

(* ---- copy and export -------------------------------------------------- *)
\* mutant: the text is cut, not copied
copyToClipboard_Cut ==
  /\ ResultsView = "text"
  /\ extractedText' = ""
  /\ ev' = Event("copyToClipboard", "Copied to clipboard!")
  /\ UNCHANGED <<captureVars, resets, ocrVars, qaVars, studyVars>>

\* "Copy" button, rendered with the extracted text
copyToClipboard ==
  /\ ResultsView = "text"
  /\ ev' = Event("copyToClipboard", "Copied to clipboard!")
  /\ UNCHANGED sessionVars

\* "TXT" button
saveAsTxt ==
  /\ ResultsView = "text"
  /\ ev' = Event("saveAsTxt", "Saved as TXT!")
  /\ UNCHANGED sessionVars

\* "PDF" button
saveAsPdf ==
  /\ ResultsView = "text"
  /\ ev' = Event("saveAsPdf", "Saved as PDF!")
  /\ UNCHANGED sessionVars

(* ---- specification ---------------------------------------------------- *)
\* the children are abstract in Spec: their state stays as constructed
Next ==
  \/ \E type \in FileTypes : handleFileInput(type) /\ UNCHANGED outerVars
  \/ \E file \in FileTypes \cup {NoFile} :
       handleDrop(file) /\ UNCHANGED outerVars
  \/ readerOnload /\ UNCHANGED outerVars
  \/ openCamera /\ UNCHANGED outerVars
  \/ handleCameraCapture /\ UNCHANGED outerVars
  \/ handleCameraCancel /\ UNCHANGED outerVars
  \/ handlePreprocessorCancel /\ UNCHANGED outerVars
  \/ processOCR /\ UNCHANGED outerVars
  \/ \E r \in ocrRuns, status \in LogStatuses, m \in EngineProgress :
       logger(r, status, m) /\ UNCHANGED outerVars
  \/ \E r \in ocrRuns, text \in EngineTexts :
       processOCRResolved(r, text) /\ UNCHANGED outerVars
  \/ \E r \in ocrRuns : processOCRRejected(r) /\ UNCHANGED outerVars
  \/ resetUpload /\ UNCHANGED outerVars
  \/ \E q \in Questions : setQuestion(q) /\ UNCHANGED outerVars
  \/ clickSend /\ UNCHANGED outerVars
  \/ keyEnter /\ UNCHANGED outerVars
  \/ \E c \in qaCalls, resp \in Responses :
       handleAskQuestionSettled(c, resp) /\ UNCHANGED outerVars
  \/ \E feature \in Features :
       clickStudyFeature(feature) /\ UNCHANGED outerVars
  \/ \E c \in genCalls, resp \in Responses :
       handleStudyFeatureSettled(c, resp) /\ UNCHANGED outerVars
  \/ closeStudyResult /\ UNCHANGED outerVars
  \/ copyToClipboard /\ UNCHANGED outerVars
  \/ saveAsTxt /\ UNCHANGED outerVars
  \/ saveAsPdf /\ UNCHANGED outerVars

Spec == Init /\ [][Next]_vars

(* ---- CameraCapture.tsx ------------------------------------------------ *)
\* which of the three returns of the component is rendered
CameraView ==
  IF ~showCamera THEN "none"
  ELSE IF hasPermission = "false" THEN "denied"
  ELSE IF hasPermission = "null" THEN "requesting"
  ELSE "live"

\* navigator.mediaDevices.getUserMedia called by requestCameraAccess
GetUserMedia(mode) ==
  [id |-> streamSeq + 1, facingMode |-> mode, orphan |-> FALSE]

\* stream.getTracks().forEach(track => track.stop()) on each of `streams`
StopTracks(streams) == openStreams \ streams

\* the component is mounted: initial state, then the effect runs
\* requestCameraAccess with `stream` still null in its cleanup closure
cameraMount ==
  /\ streamSeq < MaxStreams
  /\ camStream' = NoStream
  /\ hasPermission' = "null"
  /\ facingMode' = "environment"
  /\ effectStream' = NoStream
  /\ camRequests' = camRequests \cup {GetUserMedia("environment")}
  /\ streamSeq' = streamSeq + 1
  /\ UNCHANGED openStreams

\* the component is unmounted after its handler stopped `stopped`: the
\* cleanup of the last effect stops the stream it captured, the state is
\* dropped and the pending requests will settle on an unmounted component
cameraUnmount(stopped) ==
  /\ openStreams' = StopTracks(stopped \cup {effectStream})
  /\ camStream' = NoStream
  /\ hasPermission' = "null"
  /\ facingMode' = "environment"
  /\ effectStream' = NoStream
  /\ camRequests' = {[r EXCEPT !.orphan = TRUE] : r \in camRequests}
  /\ UNCHANGED streamSeq

\* "Take Photo": OCRUpload shows the camera, which mounts
openCameraMount ==
  /\ openCamera
  /\ cameraMount
  /\ UNCHANGED <<adjVars, extVars>>

\* the catch block of requestCameraAccess for the DOMException `error`
RequestCameraAccessCatch(error) ==
  [toast |-> "Camera access denied", hasPermission |-> "false"]

\* requestCameraAccess after its await: try or catch
requestCameraAccessSettled(req, outcome) ==
  /\ req \in camRequests
  /\ camRequests' = camRequests \ {req}
  /\ IF outcome = "granted"
     THEN /\ openStreams' = openStreams \cup {req.id}
          /\ IF req.orphan
             THEN UNCHANGED <<camStream, hasPermission>>
             ELSE /\ camStream' = req.id
                  /\ hasPermission' = "true"
          /\ ev' = [Event("requestCameraAccessResolved", "")
                      EXCEPT !.value = req.id]
     ELSE /\ IF req.orphan
             THEN UNCHANGED hasPermission
             ELSE hasPermission' = RequestCameraAccessCatch(outcome).hasPermission
          /\ ev' = [Event("requestCameraAccessRejected",
                          RequestCameraAccessCatch(outcome).toast)
                      EXCEPT !.result = outcome, !.value = req.id]
          /\ UNCHANGED <<camStream, openStreams>>
  /\ UNCHANGED <<facingMode, effectStream, streamSeq, sessionVars, adjVars, extVars>>

\* switch-camera button of the live view: stop the stream, flip the mode;
\* the effect then cleans up and requests the other camera
toggleCamera ==
  /\ CameraView = "live"
  /\ streamSeq < MaxStreams
  /\ openStreams' = StopTracks({camStream, effectStream})
  /\ facingMode' = IF facingMode = "user" THEN "environment" ELSE "user"
  /\ effectStream' = camStream
  /\ camRequests' = camRequests \cup {GetUserMedia(facingMode')}
  /\ streamSeq' = streamSeq + 1
  /\ ev' = Event("toggleCamera", "")
  /\ UNCHANGED <<camStream, hasPermission, sessionVars, adjVars, extVars>>

\* shutter button of the live view
capturePhoto ==
  /\ CameraView = "live"
  /\ handleCameraCapture
  /\ cameraUnmount({camStream})
  /\ UNCHANGED <<adjVars, extVars>>

\* cancel button of the live view, "Go Back" of the denied view
handleCancel ==
  /\ CameraView \in {"live", "denied"}
  /\ handleCameraCancel
  /\ cameraUnmount({camStream})
  /\ UNCHANGED <<adjVars, extVars>>

\* resetUpload, which unmounts the camera when it is shown
resetUploadUnmount ==
  /\ resetUpload
  /\ IF showCamera THEN cameraUnmount({}) ELSE UNCHANGED camVars
  /\ UNCHANGED <<adjVars, extVars>>

\* capture and recognition of OCRUpload with the camera component
NextCamera ==
  \/ \E type \in FileTypes : handleFileInput(type) /\ UNCHANGED outerVars
  \/ \E file \in FileTypes \cup {NoFile} :
       handleDrop(file) /\ UNCHANGED outerVars
  \/ readerOnload /\ UNCHANGED outerVars
  \/ handlePreprocessorCancel /\ UNCHANGED outerVars
  \/ processOCR /\ UNCHANGED outerVars
  \/ \E r \in ocrRuns, text \in EngineTexts :
       processOCRResolved(r, text) /\ UNCHANGED outerVars
  \/ \E r \in ocrRuns : processOCRRejected(r) /\ UNCHANGED outerVars
  \/ openCameraMount
  \/ \E req \in camRequests, outcome \in MediaOutcomes :
       requestCameraAccessSettled(req, outcome)
  \/ toggleCamera
  \/ capturePhoto
  \/ handleCancel
  \/ resetUploadUnmount

SpecCamera == Init /\ [][NextCamera]_vars

(* ---- ImagePreprocessor.tsx -------------------------------------------- *)
\* the value the Slider passes to onValueChange when the pointer asks for
\* `raw`: kept within its min and max props
SliderValue(raw, min, max) ==
  IF raw < min THEN min ELSE IF raw > max THEN max ELSE raw

\* mutant: the canvas takes the size of the image whatever the rotation
ApplyFilters_NoSwap(img, rot, sc) ==
  [img |-> img, rotation |-> rot, scale |-> sc,
   width |-> (ImageWidth(img) * sc) \div 10,
   height |-> (ImageHeight(img) * sc) \div 10]

\* applyFilters as run by a render whose rotation is `rot` and whose scale
\* is `sc` tenths, on the loaded image `img`: the canvas size (an integer
\* attribute, the fraction of the product is dropped) and the drawing
ApplyFilters(img, rot, sc) ==
  LET isRotated == rot % 180 # 0
      width == IF isRotated THEN ImageHeight(img) ELSE ImageWidth(img)
      height == IF isRotated THEN ImageWidth(img) ELSE ImageHeight(img)
  IN [img |-> img, rotation |-> rot, scale |-> sc,
      width |-> (width * sc) \div 10,
      height |-> (height * sc) \div 10]

\* useEffect(.., [rotation, scale]): after a render that changed one of the
\* two, the canvas is drawn again if an image is loaded
redrawEffect ==
  /\ canvas' = IF imgRef # NoImage /\ <<rotation', scale'>> # <<rotation, scale>>
               THEN ApplyFilters(imgRef, rotation', scale')
               ELSE canvas
  /\ UNCHANGED <<imgRef, imgLoads, processed>>

\* useState(0), useState(1), useRef(null) of a freshly mounted adjuster and
\* its first useEffect(.., [image]), or the defaults while none is rendered
adjusterMounted ==
  /\ rotation' = DefaultRotation
  /\ scale' = DefaultScale
  /\ rotations' = 0
  /\ imgRef' = NoImage
  /\ canvas' = BlankCanvas
  /\ imgLoads' = IF CaptureView' = "preprocessor"
                 THEN {[img |-> image', rotation |-> DefaultRotation,
                        scale |-> DefaultScale]}
                 ELSE {}

\* what a step of OCRUpload does to the adjuster: it keeps its state while
\* it stays rendered, starting a load when the image prop changed (the
\* onload calls the applyFilters of that render), and is constructed anew
\* the next time it is rendered
adjusterLifecycle ==
  IF CaptureView = "preprocessor" /\ CaptureView' = "preprocessor"
  THEN /\ UNCHANGED <<rotation, scale, rotations, imgRef, canvas>>
       /\ imgLoads' = IF image' # image
                      THEN imgLoads \cup {[img |-> image',
                                           rotation |-> rotation,
                                           scale |-> scale]}
                      ELSE imgLoads
  ELSE adjusterMounted

adjusterRerendered ==
  /\ adjusterLifecycle
  /\ UNCHANGED processed

\* img.onload of a load started by useEffect(.., [image])
imgOnload(l) ==
  /\ CaptureView = "preprocessor"
  /\ l \in imgLoads
  /\ imgLoads' = imgLoads \ {l}
  /\ imgRef' = l.img
  /\ canvas' = ApplyFilters(l.img, l.rotation, l.scale)
  /\ ev' = Event("imgOnload", "")
  /\ UNCHANGED <<rotation, scale, rotations, processed, sessionVars, camVars,
                 extVars>>

\* mutant: the rotation is advanced without the wrap at 360
handleRotate_NoWrap ==
  /\ CaptureView = "preprocessor"
  /\ rotations < MaxRotations
  /\ rotation' = rotation + 90
  /\ rotations' = rotations + 1
  /\ ev' = Event("handleRotate", "")
  /\ UNCHANGED <<scale, sessionVars, camVars, extVars>>
  /\ redrawEffect

\* "Rotate 90" button
handleRotate ==
  /\ CaptureView = "preprocessor"
  /\ rotations < MaxRotations
  /\ rotation' = (rotation + 90) % 360
  /\ rotations' = rotations + 1
  /\ ev' = Event("handleRotate", "")
  /\ UNCHANGED <<scale, sessionVars, camVars, extVars>>
  /\ redrawEffect

\* Slider onValueChange={(value) => setScale(value[0])}
onValueChange(raw) ==
  /\ CaptureView = "preprocessor"
  /\ scale' = SliderValue(raw, SliderMin, SliderMax)
  /\ ev' = [Event("onValueChange", "") EXCEPT !.value = raw]
  /\ UNCHANGED <<rotation, rotations, sessionVars, camVars, extVars>>
  /\ redrawEffect

\* mutant: the reset leaves the scale as it is
handleReset_KeepScale ==
  /\ CaptureView = "preprocessor"
  /\ rotation' = 0
  /\ rotations' = 0
  /\ ev' = Event("handleReset", "")
  /\ UNCHANGED <<scale, sessionVars, camVars, extVars>>
  /\ redrawEffect

\* "Reset" button
handleReset ==
  /\ CaptureView = "preprocessor"
  /\ rotation' = 0
  /\ scale' = 10
  /\ rotations' = 0
  /\ ev' = Event("handleReset", "")
  /\ UNCHANGED <<sessionVars, camVars, extVars>>
  /\ redrawEffect

\* "Process OCR" button: onProcess(canvas.toDataURL())
handleProcess ==
  /\ processed' = canvas
  /\ processOCR
  /\ adjusterLifecycle
  /\ UNCHANGED <<camVars, extVars>>

\* "Cancel" button: onCancel()
adjusterCancel ==
  /\ handlePreprocessorCancel
  /\ adjusterRerendered
  /\ UNCHANGED <<camVars, extVars>>

\* capture and recognition of OCRUpload with the adjuster component
NextAdjuster ==
  \/ \E type \in FileTypes :
       /\ handleFileInput(type)
       /\ adjusterRerendered
       /\ UNCHANGED <<camVars, extVars>>
  \/ \E file \in FileTypes \cup {NoFile} :
       /\ handleDrop(file)
       /\ adjusterRerendered
       /\ UNCHANGED <<camVars, extVars>>
  \/ /\ readerOnload
     /\ adjusterRerendered
     /\ UNCHANGED <<camVars, extVars>>
  \/ /\ openCamera
     /\ adjusterRerendered
     /\ UNCHANGED <<camVars, extVars>>
  \/ /\ handleCameraCapture
     /\ adjusterRerendered
     /\ UNCHANGED <<camVars, extVars>>
  \/ /\ handleCameraCancel
     /\ adjusterRerendered
     /\ UNCHANGED <<camVars, extVars>>
  \/ \E r \in ocrRuns, text \in EngineTexts :
       /\ processOCRResolved(r, text)
       /\ adjusterRerendered
       /\ UNCHANGED <<camVars, extVars>>
  \/ \E r \in ocrRuns :
       /\ processOCRRejected(r)
       /\ adjusterRerendered
       /\ UNCHANGED <<camVars, extVars>>
  \/ /\ resetUpload
     /\ adjusterRerendered
     /\ UNCHANGED <<camVars, extVars>>
  \/ \E l \in imgLoads : imgOnload(l)
  \/ handleRotate
  \/ \E raw \in SliderInputs : onValueChange(raw)
  \/ handleReset
  \/ handleProcess
  \/ adjusterCancel

SpecAdjuster == Init /\ [][NextAdjuster]_vars

(* ---- supabase/functions/ai-study-tools/index.ts ----------------------- *)
\* the outcome of a stretch of the try block: it threw `error`, or went on
Throw(error) == [thrown |-> TRUE, error |-> error]
Pass == [thrown |-> FALSE, error |-> ""]

\* mutant: the switch has no default case
Switch_NoDefault(action, q) ==
  IF action = "qa" /\ q = ""
  THEN Throw("Question is required for Q&A action")
  ELSE Pass

\* switch (action): the prompts are built, or the case throws
Switch(action, q) ==
  IF action = "qa"
  THEN IF q = ""
       THEN Throw("Question is required for Q&A action")
       ELSE Pass
  ELSE IF action \in {"lesson", "flashcards", "summarize", "quiz"}
       THEN Pass
       ELSE Throw("Invalid action")

\* mutant: the credential is tested before the text
Validate_KeyFirst(body, key) ==
  IF ~body.json THEN Throw("Unexpected end of JSON input")
  ELSE IF key = "" THEN Throw("GEMINI_API_KEY is not configured")
  ELSE IF body.text = "" THEN Throw("Text is required")
  ELSE Switch(body.action, body.question)

\* the try block up to the fetch
Validate(body, key) ==
  IF ~body.json THEN Throw("Unexpected end of JSON input")
  ELSE IF body.text = "" THEN Throw("Text is required")
  ELSE IF key = "" THEN Throw("GEMINI_API_KEY is not configured")
  ELSE Switch(body.action, body.question)

\* the try block from the fetch on
Generate(upstream) ==
  IF upstream.status = 0 THEN Throw("error sending request")
  ELSE IF ~upstream.ok THEN Throw("Gemini API error: 429")
  ELSE IF upstream.text = "" THEN Throw("No response from Gemini API")
  ELSE Pass

\* the handler given to serve(): the Response for a request, with whether
\* the request body was read, whether the provider was called and how many
\* times
Handler(req) ==
  IF req.method = "OPTIONS"
  THEN [status |-> 200, headers |-> corsHeaders, body |-> NoBody,
        bodyRead |-> FALSE, fetched |-> FALSE, fetches |-> 0]
  ELSE LET v == Validate(req.body, req.key)
           g == Generate(req.upstream)
       IN IF v.thrown
          THEN [status |-> 500, headers |-> JsonHeaders,
                body |-> [error |-> v.error],
                bodyRead |-> TRUE, fetched |-> FALSE, fetches |-> 0]
          ELSE IF g.thrown
          THEN [status |-> 500, headers |-> JsonHeaders,
                body |-> [error |-> g.error],
                bodyRead |-> TRUE, fetched |-> TRUE, fetches |-> 1]
          ELSE [status |-> 200, headers |-> JsonHeaders,
                body |-> [result |-> req.upstream.text],
                bodyRead |-> TRUE, fetched |-> TRUE, fetches |-> 1]

\* one request served from arrival to Response
serve(method, body, key, upstream) ==
  /\ request' = [method |-> method, body |-> body, key |-> key,
                 upstream |-> upstream]
  /\ response' = Handler(request')
  /\ ev' = Event("serve", "")
  /\ UNCHANGED <<sessionVars, childVars, exportVars>>

NextService ==
  \E method \in Methods, body \in Bodies, key \in ApiKeys,
     upstream \in Upstreams :
    serve(method, body, key, upstream)

\* the edge function, one request after the other
SpecService == Init /\ [][NextService]_vars

(* ---- the text that is copied and exported ----------------------------- *)
\* doc.splitTextToSize(text, maxWidth): the text cut into lines of at most
\* n characters
RECURSIVE SplitTextToSize(_, _)
SplitTextToSize(text, n) ==
  IF Len(text) <= n THEN <<text>>
  ELSE <<SubSeq(text, 1, n)>> \o SplitTextToSize(SubSeq(text, n + 1, Len(text)), n)

\* new jsPDF(); doc.text(lines, margin, margin); doc.save(): every line is
\* drawn on the one page the document is created with, one below the other
PdfDocument(text) ==
  [type |-> "pdf", content |-> << SplitTextToSize(text, LineChars) >>]

\* new Blob([extractedText], { type: "text/plain" })
TxtBlob(text) == [type |-> "txt", content |-> text]

\* the characters follow extractedText: a recognition result brings its
\* own, clearing the text clears them
charsFollow ==
  IF extractedText' = "" THEN chars' = <<>>
  ELSE IF ev'.op = "processOCRResolved" THEN chars' \in DocTexts
  ELSE chars' = chars

\* copyToClipboard with the clipboard and the `copied` mark of the button
copyToClipboardWrite ==
  /\ copyToClipboard
  /\ clipboard' = chars
  /\ copied' = TRUE
  /\ UNCHANGED <<chars, download, childVars, svcVars>>

\* setTimeout(() => setCopied(false), 2000)
copiedTimeout ==
  /\ copied
  /\ copied' = FALSE
  /\ ev' = Event("copiedTimeout", "")
  /\ UNCHANGED <<sessionVars, chars, clipboard, download, childVars, svcVars>>

\* saveAsTxt with the file it offers
saveAsTxtDownload ==
  /\ saveAsTxt
  /\ download' = TxtBlob(chars)
  /\ UNCHANGED <<chars, copied, clipboard, childVars, svcVars>>

\* saveAsPdf with the file it offers
saveAsPdfDownload ==
  /\ saveAsPdf
  /\ download' = PdfDocument(chars)
  /\ UNCHANGED <<chars, copied, clipboard, childVars, svcVars>>

\* capture by file, recognition and reset of OCRUpload, with the exports
NextExport ==
  \/ \E type \in FileTypes :
       /\ handleFileInput(type)
       /\ charsFollow
       /\ UNCHANGED <<copied, clipboard, download, childVars, svcVars>>
  \/ /\ readerOnload
     /\ charsFollow
     /\ UNCHANGED <<copied, clipboard, download, childVars, svcVars>>
  \/ /\ processOCR
     /\ charsFollow
     /\ UNCHANGED <<copied, clipboard, download, childVars, svcVars>>
  \/ \E r \in ocrRuns, text \in EngineTexts :
       /\ processOCRResolved(r, text)
       /\ charsFollow
       /\ UNCHANGED <<copied, clipboard, download, childVars, svcVars>>
  \/ \E r \in ocrRuns :
       /\ processOCRRejected(r)
       /\ charsFollow
       /\ UNCHANGED <<copied, clipboard, download, childVars, svcVars>>
  \/ /\ resetUpload
     /\ charsFollow
     /\ UNCHANGED <<copied, clipboard, download, childVars, svcVars>>
  \/ copyToClipboardWrite
  \/ copiedTimeout
  \/ saveAsTxtDownload
  \/ saveAsPdfDownload

SpecExport == Init /\ [][NextExport]_vars

\* handleStudyFeature called while no text is extracted.  The markup never
\* does this (the study buttons are rendered with the extracted text); the
\* call exercises the guard at the head of the handler.
callHandleStudyFeature(feature) ==
  /\ extractedText = ""
  /\ handleStudyFeature(feature)
  /\ UNCHANGED <<captureVars, extractedText, resets, ocrVars, qaVars,
                 outerVars>>

NextHandlers ==
  \/ Next
  \/ \E feature \in Features : callHandleStudyFeature(feature)

\* the component with its handlers also callable directly
SpecHandlers == Init /\ [][NextHandlers]_vars

TypeOK ==
  /\ image \in 0..MaxCaptures
  /\ extractedText \in EngineTexts
  /\ isProcessing \in BOOLEAN
  /\ progress \in 0..100
  /\ showPreprocessor \in BOOLEAN
  /\ showCamera \in BOOLEAN
  /\ question \in Questions
  /\ Len(qaHistory) <= MaxAsks
  /\ isAnswering \in BOOLEAN
  /\ activeFeature \in Features \cup {NULL}
  /\ studyResult \in {"", "r1"}
  /\ isGenerating \in BOOLEAN
  /\ reads \in 0..MaxCaptures
  /\ captures \in 0..MaxCaptures

(* ======================================================================= *)
(* Claims                                                                  *)
(* ======================================================================= *)
\* the turns of h whose answer is still the pending sentinel
PendingTurns(h) == {i \in DOMAIN h : h[i].answer = PENDING}

\* q is empty or consists of white space only
IsBlank(q) == \A i \in DOMAIN q : q[i] = " "

\* C1: whenever ExtractedText is replaced, by a successful recognition run
\* or by resetUpload, the QA history is empty and no study artifact is
\* active immediately afterwards.
C1_ReplacementClearsSession ==
  ev.op \in {"processOCRResolved", "resetUpload"} =>
    /\ qaHistory = <<>>
    /\ activeFeature = NULL
    /\ studyResult = ""

\* C2: in every reachable state, if ExtractedText is absent then the QA
\* history is empty and no study artifact is active.
C2_NoTextNoDerivedState ==
  extractedText = "" =>
    /\ qaHistory = <<>>
    /\ activeFeature = NULL
    /\ studyResult = ""

\* C3: the result (success or failure) of a recognition run that was
\* started before a newer image was captured does not write ExtractedText,
\* does not clear the newer image and does not change the capture stage.
C3_StaleRecognitionDiscarded ==
  [][ (/\ ev'.op \in {"processOCRResolved", "processOCRRejected"}
       /\ ev'.sinceCapture)
      => UNCHANGED <<extractedText, image, showPreprocessor, showCamera>> ]_vars

\* C4: the late result of a generate or ask request that was in flight
\* when resetUpload ran or a new image was captured is a no-op on
\* studyResult, activeFeature and qaHistory.
C4_StaleServiceResultIsNoOp ==
  [][ (/\ ev'.op \in {"genSuccess", "genFailure", "qaSuccess", "qaFailure"}
       /\ (ev'.sinceReset \/ ev'.sinceCapture))
      => UNCHANGED <<studyResult, activeFeature, qaHistory>> ]_vars

C8_SingleAskInFlight ==
  /\ Cardinality(qaCalls) <= 1
  /\ Cardinality(PendingTurns(qaHistory)) <= 1
  /\ qaCalls # {} => isAnswering

C8_Witness ==
  /\ ev.op \in {"textareaDisabled", "sendDisabled"}
  /\ Cardinality(qaCalls) = 1
  /\ Cardinality(PendingTurns(qaHistory)) = 1

\* C9: after generate(kind) whose service call succeeds with result r,
\* with no resetUpload in between, the active artifact is exactly
\* {kind, content: r} and isGenerating is false.
C9_GenerateSuccess ==
  (ev.op = "genSuccess" /\ ~ev.sinceReset) =>
    /\ activeFeature = ev.feature
    /\ studyResult = ev.result
    /\ ev.result # ""
    /\ ~isGenerating

C9_Witness ==
  /\ ev.op = "genSuccess"
  /\ ~ev.sinceReset
  /\ ev.feature = "summarize"
  /\ studyResult = "r1"

\* C10: when the service call of generate(kind) fails, no feature is
\* active, no content is held, an error toast is shown and isGenerating is
\* false; ExtractedText and qaHistory are unchanged.
C10_GenerateFailure ==
  [][ ev'.op = "genFailure" =>
        /\ activeFeature' = NULL
        /\ studyResult' = ""
        /\ ev'.toast = "Generation failed"
        /\ ~isGenerating'
        /\ UNCHANGED <<extractedText, qaHistory>> ]_vars

C10_Witness ==
  /\ ev.op = "genFailure"
  /\ extractedText # ""
  /\ qaHistory # <<>>

\* C11: handleStudyFeature with ExtractedText absent is refused with a
\* notification: no service call is made and isGenerating, activeFeature
\* and studyResult are unchanged.
C11_GenerateRefusedWithoutText ==
  [][ (/\ ev'.op \in {"generateSent", "generateRefused"}
       /\ extractedText = "")
      => /\ ev'.op = "generateRefused"
         /\ ev'.toast = "No text available"
         /\ UNCHANGED <<isGenerating, activeFeature, studyResult, genCalls>>
    ]_vars

C11_Witness ==
  /\ ev.op = "generateRefused"
  /\ extractedText = ""
  /\ genCalls = {}

\* C12: no in-flight flag stays stuck: the step in which a recognition,
\* QA or generation request terminates, with either outcome and whatever
\* happened meanwhile, leaves its flag false, and a flag is true only
\* while a request that will clear it is still in flight.
C12_FlagsCleared ==
  /\ ev.op \in {"processOCRResolved", "processOCRRejected"} => ~isProcessing
  /\ ev.op \in {"qaSuccess", "qaFailure"} => ~isAnswering
  /\ ev.op \in {"genSuccess", "genFailure"} => ~isGenerating
  /\ isProcessing => ocrRuns # {}
  /\ isAnswering => qaCalls # {}
  /\ isGenerating => genCalls # {}

C12_Witness ==
  /\ ev.op = "processOCRRejected"
  /\ ev.sinceCapture
  /\ ocrRuns = {}

\* a control that resets or cancels is rendered
ResetOrCancelRendered ==
  \/ ResultsView = "text"
  \/ CaptureView \in {"camera", "preprocessor"}

\* the session is as it was after construction
SessionInitial ==
  /\ image = NoImage
  /\ extractedText = ""
  /\ ~isProcessing
  /\ ~showPreprocessor
  /\ ~showCamera
  /\ qaHistory = <<>>
  /\ activeFeature = NULL
  /\ studyResult = ""

\* C13: in every reachable state other than the initial one, also after a
\* recognition failure and while a task is pending, a reset or cancel
\* control is available to the user.
C13_ResetAlwaysAvailable ==
  SessionInitial \/ ResetOrCancelRendered

\* C14: at most one camera device stream is open in any reachable state.
C14_OneStreamOpen ==
  Cardinality(openStreams) <= 1

\* C15: once the camera component is no longer displayed, no camera
\* stream it requested is open.
C15_NoStreamAfterUnmount ==
  ~showCamera => openStreams = {}

\* C16: a device-level failure is surfaced differently from a permission
\* denial: its toast and the view it leads to are not both those that a
\* denial produces.
C16_DeviceFailureDistinct ==
  (/\ ev.op = "requestCameraAccessRejected"
   /\ ev.result \in DeviceErrors
   /\ showCamera)
  => \A denial \in PermissionErrors :
       [toast |-> ev.toast, hasPermission |-> hasPermission]
         # RequestCameraAccessCatch(denial)

\* C17: for every sequence of rotate and reset calls, rotation is a
\* multiple of 90 in [0,360) and equals 90 times the number of rotate calls
\* since the last reset or mount, modulo 360 (so four calls bring it back).
C17_RotationCounts ==
  /\ rotation \in {0, 90, 180, 270}
  /\ rotation = (90 * rotations) % 360

C17_Witness ==
  /\ ev.op = "handleRotate"
  /\ rotations = 4
  /\ rotation = 0

\* C18: the stored scale is always within [0.5, 2.0] whatever the slider
\* is asked for, and handleReset yields scale 1.0 and rotation 0.
C18_ScaleClamped ==
  /\ scale \in 5..20
  /\ ev.op = "handleReset" => scale = 10 /\ rotation = 0

C18_Witness ==
  /\ ev.op = "onValueChange"
  /\ ev.value > 20
  /\ scale = 20

\* C19: on every new capture (file input, drag-drop or camera) the
\* adjustment state is rotation 0 and scale 1.0 for the new image.
C19_NewCaptureResetsAdjustment ==
  ev.op \in {"readerOnload", "handleCameraCapture"} =>
    rotation = 0 /\ scale = 10

\* C20: the recognition progress observed by the session is an integer in
\* [0,100] and, while a recognition run is in flight (started and not yet
\* terminated), no step lowers it.
C20_ProgressNeverDecreases ==
  [][ /\ progress' \in 0..100
      /\ (\E r \in ocrRuns : \E r2 \in ocrRuns' : r2.img = r.img)
           => progress' >= progress ]_vars

\* C21: the step in which a recognition run fails writes no text
\* (ExtractedText is what it was), leaves the progress percentage 0 and
\* isProcessing false, and surfaces the failure.
C21_FailureWritesNoText ==
  [][ ev'.op = "processOCRRejected" =>
        /\ UNCHANGED extractedText
        /\ progress' = 0
        /\ ~isProcessing'
        /\ ev'.toast = "Extraction failed" ]_vars

C21_Witness ==
  /\ ev.op = "processOCRRejected"
  /\ ~ev.sinceCapture
  /\ extractedText = ""
  /\ progress = 0

\* C22: from the start of processOCR until the next capture the stored
\* image is absent, whether the run succeeds or fails.
C22_ImageDiscardedAtStart ==
  /\ ev.op = "processOCR" => image = NoImage
  /\ (ev.op \in {"processOCRResolved", "processOCRRejected"}
      /\ ~ev.sinceCapture) => image = NoImage

\* C23: a file whose media type is not an image is rejected with the
\* "Invalid file type" notification and leaves the stored image,
\* ExtractedText and the capture stage unchanged; a file of an image type
\* is read, and when it is loaded it becomes the stored image, ExtractedText
\* is cleared and the adjuster is opened (shown as soon as the camera is
\* not).
C23_FileCapture ==
  [][ /\ (/\ ev'.op \in {"handleFileInput", "handleDrop"}
          /\ ev'.result \notin {"", "image"})
         => /\ ev'.toast = "Invalid file type"
            /\ UNCHANGED <<image, extractedText, showPreprocessor,
                           showCamera, reads, captures>>
      /\ (/\ ev'.op \in {"handleFileInput", "handleDrop"}
          /\ ev'.result = "image")
         => /\ ev'.toast = ""
            /\ reads' = reads + 1
      /\ ev'.op = "readerOnload"
         => /\ image' \notin {NoImage, image}
            /\ extractedText' = ""
            /\ showPreprocessor'
            /\ ~showCamera => CaptureView' = "preprocessor" ]_vars

C23_Witness ==
  /\ ev.op = "handleDrop"
  /\ ev.toast = "Invalid file type"
  /\ CaptureView = "preprocessor"

\* C24: the generation service answers 200 with {result}, the text of the
\* first upstream candidate, exactly when the text is non-empty, the
\* credential is configured, the action is one of the five, a question is
\* present for qa, the upstream call has a success status and its first
\* candidate text is non-empty; in every other case it answers 500 with
\* {error}.
C24_ServiceAnswer ==
  request.method = "POST" =>
    IF /\ request.body.json
       /\ request.body.text # ""
       /\ request.key # ""
       /\ request.body.action \in
            {"qa", "lesson", "flashcards", "summarize", "quiz"}
       /\ request.body.action = "qa" => request.body.question # ""
       /\ request.upstream.ok
       /\ request.upstream.text # ""
    THEN /\ response.status = 200
         /\ response.body = [result |-> request.upstream.text]
    ELSE /\ response.status = 500
         /\ DOMAIN response.body = {"error"}

C24_Witness ==
  /\ request.method = "POST"
  /\ request.body.action = "qa"
  /\ response.status = 200
  /\ response.body = [result |-> "r1"]

\* C25: every response of the generation service carries the permissive
\* cross-origin headers, and an OPTIONS request is answered with no body,
\* without reading the request body and without calling the provider.
C25_CorsOnEveryResponse ==
  request.method # "none" =>
    /\ {"Access-Control-Allow-Origin", "Access-Control-Allow-Headers"}
         \subseteq DOMAIN response.headers
    /\ response.headers["Access-Control-Allow-Origin"] = "*"
    /\ request.method = "OPTIONS" =>
         /\ response.body = NoBody
         /\ ~response.bodyRead
         /\ ~response.fetched

C25_Witness ==
  /\ request.method = "OPTIONS"
  /\ request.body.json
  /\ request.body.text # ""
  /\ response.body = NoBody

\* C26: one artifact at most is held, and a request for a kind discards the
\* content of the previous artifact from the moment it starts: the new kind
\* is the active one with no content, no content is held while the request
\* is in flight, and none is held after it failed.
C26_RequestDiscardsPrevious ==
  [][ /\ ev'.op = "generateSent" =>
           /\ activeFeature' = ev'.feature
           /\ studyResult' = ""
      /\ genCalls' # {} => studyResult' = ""
      /\ ev'.op = "genFailure" => studyResult' = "" ]_vars

C26_Witness ==
  /\ ev.op = "generateSent"
  /\ ev.result = "r1"
  /\ studyResult = ""
  /\ activeFeature = ev.feature

\* the turn of h that request c put there is present and still pending
TurnPending(h, c) ==
  \E i \in DOMAIN h :
    /\ h[i].timestamp = c.timestamp
    /\ h[i].question = c.question
    /\ h[i].answer = PENDING

\* the turns of h are in the order of their arrival
InArrivalOrder(h) ==
  \A i, j \in DOMAIN h : i < j => h[i].timestamp < h[j].timestamp

LinesOnPage(page) ==
  SubSeq(page, 1, IF Len(page) < PageLines THEN Len(page) ELSE PageLines)

\* the concatenation of a sequence of sequences
RECURSIVE Concat(_)
Concat(ss) == IF ss = <<>> THEN <<>> ELSE Head(ss) \o Concat(Tail(ss))

\* the text of all pages of a document, line breaks ignored
PageText(pages) ==
  Concat([i \in DOMAIN pages |-> Concat(LinesOnPage(pages[i]))])

\* C28: the document saveAsPdf produces has more than one page when the
\* text is too long for one page, and the text of all its pages, line
\* breaks ignored, is the input text.
C28_PdfFlowsAcrossPages ==
  ev.op = "saveAsPdf" =>
    /\ Len(chars) > LineChars * PageLines => Len(download.content) > 1
    /\ PageText(download.content) = chars

\* C29: the message shown for a failed QA or generation request is drawn
\* from the cause: it is not the message that every other cause of failure
\* produces as well.
C29_FailureMessageFromCause ==
  ev.op \in {"qaFailure", "genFailure"} =>
    \E resp \in Responses :
      /\ ~callAIStudyTool(resp).ok
      /\ callAIStudyTool(resp).message # ev.result

\* C30: ExtractedText is written only by a recognition success, a new
\* capture or resetUpload; ask, generate, close, copy, saveAsTxt and
\* saveAsPdf leave ExtractedText, the stored image and the capture-stage
\* flags unchanged, and the two exports also leave qaHistory and the study
\* artifact unchanged.
C30_TextWrittenOnlyByRecognition ==
  [][ /\ extractedText' # extractedText =>
           ev'.op \in {"processOCRResolved", "readerOnload",
                       "handleCameraCapture", "resetUpload"}
      /\ ev'.op \in {"askSent", "askRefused", "qaSuccess", "qaFailure",
                     "generateSent", "generateRefused", "genSuccess",
                     "genFailure", "closeStudyResult", "copyToClipboard",
                     "saveAsTxt", "saveAsPdf"} =>
           UNCHANGED <<extractedText, image, showPreprocessor, showCamera>>
      /\ ev'.op \in {"saveAsTxt", "saveAsPdf"} =>
           UNCHANGED <<qaHistory, activeFeature, studyResult>> ]_vars

C30_Witness ==
  /\ ev.op = "saveAsPdf"
  /\ extractedText # ""
  /\ qaHistory # <<>>
  /\ studyResult # ""

\* C33: once the camera component is in the denied state it stays there
\* until it is dismissed: no step that leaves it displayed changes
\* hasPermission from false.
C33_DenialIsTerminal ==
  [][ (showCamera /\ showCamera' /\ hasPermission = "false")
        => hasPermission' = "false" ]_vars

\* C34: in no reachable state are the camera flag and the adjuster flag
\* both set.
C34_CameraAndAdjusterExclusive ==
  ~(showCamera /\ showPreprocessor)

\* C35: at most one recognition run is in flight, and isProcessing is true
\* in every state in which a run is in flight.
C35_SingleRecognitionInFlight ==
  /\ Cardinality(ocrRuns) <= 1
  /\ ocrRuns # {} => isProcessing

\* C36: in every reachable state, showPreprocessor set implies that an
\* image is stored.
C36_AdjusterFlagImpliesImage ==
  showPreprocessor => image # NoImage

\* C37: in every reachable state, if no study feature is active then
\* studyResult is empty.
C37_ContentOnlyWithKind ==
  activeFeature = NULL => studyResult = ""

\* C38: in every reachable state in which no recognition is in flight,
\* one of the camera view, the adjuster and the upload controls is
\* rendered in the capture area.
C38_CaptureAreaHasControls ==
  (ocrRuns = {} /\ ~isProcessing) =>
    CaptureView \in {"camera", "preprocessor", "upload"}

\* C39: the generation service calls the provider at most once per
\* request and only after all validation passed: not when the text is
\* missing, the credential is missing, the action is unrecognised or the
\* question is missing for qa; when several of these hold the error
\* reported follows the order text, credential, action / question.
C39_UpstreamAfterValidation ==
  (request.method = "POST" /\ request.body.json) =>
    LET noText == request.body.text = ""
        noKey == request.key = ""
        noQuestion == request.body.action = "qa" /\ request.body.question = ""
        badAction == request.body.action \notin
                       {"qa", "lesson", "flashcards", "summarize", "quiz"}
    IN /\ response.fetches <= 1
       /\ (noText \/ noKey \/ noQuestion \/ badAction) =>
            /\ response.fetches = 0
            /\ response.status = 500
       /\ noText => response.body = [error |-> "Text is required"]
       /\ (~noText /\ noKey) =>
            response.body = [error |-> "GEMINI_API_KEY is not configured"]
       /\ (~noText /\ ~noKey /\ noQuestion) =>
            response.body = [error |-> "Question is required for Q&A action"]
       /\ (~noText /\ ~noKey /\ badAction) =>
            response.body = [error |-> "Invalid action"]
       /\ ~(noText \/ noKey \/ noQuestion \/ badAction) =>
            response.fetches = 1

C39_Witness ==
  /\ request.method = "POST"
  /\ request.body.json
  /\ request.body.text = ""
  /\ request.key = ""
  /\ request.body.action = "translate"
  /\ response.body = [error |-> "Text is required"]
  /\ response.fetches = 0

\* C31: in every interleaving of image load, rotate, setScale, reset and a
\* change of the image prop, the canvas that handleProcess hands to
\* recognition shows the current image drawn with the current rotation and
\* scale: never a blank canvas, a previous image or an older adjustment.
C31_ExportReflectsCurrentState ==
  [][ ev'.op = "processOCR" =>
        /\ processed'.img = image
        /\ processed'.rotation = rotation
        /\ processed'.scale = scale ]_vars

\* C32 as stated: a drawn canvas is exactly image width x scale by image
\* height x scale, the two swapped when the rotation is 90 or 270.
C32_CanvasIsExactProduct ==
  canvas.img # NoImage =>
    LET w == ImageWidth(canvas.img)
        h == ImageHeight(canvas.img)
    IN IF canvas.rotation \in {90, 270}
       THEN /\ 10 * canvas.width = h * canvas.scale
            /\ 10 * canvas.height = w * canvas.scale
       ELSE /\ 10 * canvas.width = w * canvas.scale
            /\ 10 * canvas.height = h * canvas.scale

\* C32 (amended): a drawn canvas is image width x scale by image height x
\* scale with the fraction of a pixel dropped, the two image dimensions
\* swapped when the rotation it was drawn with is 90 or 270 and not swapped
\* when it is 0 or 180.
C32_CanvasIsTruncatedProduct ==
  canvas.img # NoImage =>
    LET w == ImageWidth(canvas.img)
        h == ImageHeight(canvas.img)
    IN /\ canvas.rotation \in {0, 90, 180, 270}
       /\ IF canvas.rotation \in {90, 270}
          THEN /\ canvas.width = (h * canvas.scale) \div 10
               /\ canvas.height = (w * canvas.scale) \div 10
          ELSE /\ canvas.width = (w * canvas.scale) \div 10
               /\ canvas.height = (h * canvas.scale) \div 10

C32_Witness ==
  /\ ev.op = "handleRotate"
  /\ canvas.img # NoImage
  /\ canvas.rotation = 270
  /\ canvas.scale = 5
  /\ canvas.width = (ImageHeight(canvas.img) * canvas.scale) \div 10
  /\ 10 * canvas.height # ImageWidth(canvas.img) * canvas.scale
  /\ canvas.width # canvas.height

====
